---- MODULE Spec2Model ----
(***************************************************************************)
(* SoundWaveFactory (src/solution.py): a note table, waveform generation,  *)
(* wave shape conversion, an ADSR envelope, combination, normalisation and *)
(* melody parsing/rendering.  Every method is a synchronous function of    *)
(* its arguments; the only instance state is self.notes.                   *)
(*                                                                         *)
(* Numbers are exact rationals <<n, d>> (d > 0, lowest terms); the pairs   *)
(* <<1,0>>, <<-1,0>> and <<0,0>> stand for the floats inf, -inf and nan.   *)
(* An ndarray is [dtype, len, at]: `at` gives the samples at the indices   *)
(* Idx(len), which are all indices of an array of at most MaxDense samples   *)
(* and the first and last index of a longer one (the two points where a    *)
(* linspace timeline is exactly its start and stop).                       *)
(*                                                                         *)
(* numpy is taken as released since 1.24: a list of arrays of different    *)
(* lengths does not convert to an array.  np.sin is a rational             *)
(* approximation (see np_sin); float arithmetic is otherwise exact, which  *)
(* agrees with IEEE doubles on every comparison made here (x / x = 1,      *)
(* 0 * x = 0, int(n * k/d) for the fractions tried).                       *)
(***************************************************************************)
EXTENDS Integers, Sequences, FiniteSets, TLC

VARIABLES notes, call, ret

vars == <<notes, call, ret>>

(* ------------------------------ bounds -------------------------------- *)
\* longest array whose samples are all tracked
MaxDense == 10
\* longest enumerated input wave
MaxLen == 2
\* longest constant-amplitude wave given to apply_adsr
MaxAdsrLen == 8
\* most waves in a list given to combine_waves / normalize_sound_waves
MaxWaves == 2
\* longest enumerated melody string
MaxText == 4
\* the ADSR fractions tried are k / FracDen, k = 0 .. FracDen
FracDen == 4

(* --------------------------- class constants -------------------------- *)
SAMPLING_RATE == 44100
DURATION_SECONDS == 5
SOUND_ARRAY_LEN == SAMPLING_RATE * DURATION_SECONDS
MAX_AMPLITUDE == 2 ^ 13

\* NOTES, each frequency in units of 10^-5 Hz (the table's literals have at
\* most five decimals)
NOTES ==
    ("0" :> 0) @@ ("e0" :> 2060172) @@ ("f0" :> 2182676) @@ ("f#0" :> 2312465) @@
    ("g0" :> 2449971) @@ ("g#0" :> 2595654) @@ ("a0" :> 2750000) @@ ("a#0" :> 2913524) @@
    ("b0" :> 3086771) @@ ("c0" :> 3270320) @@ ("c#0" :> 3464783) @@ ("d0" :> 3670810) @@
    ("d#0" :> 3889087) @@ ("e1" :> 4120344) @@ ("f1" :> 4365353) @@ ("f#1" :> 4624930) @@
    ("g1" :> 4899943) @@ ("g#1" :> 5191309) @@ ("a1" :> 5500000) @@ ("a#1" :> 5827047) @@
    ("b1" :> 6173541) @@ ("c1" :> 6540639) @@ ("c#1" :> 6929566) @@ ("d1" :> 7341619) @@
    ("d#1" :> 7778175) @@ ("e2" :> 8240689) @@ ("f2" :> 8730706) @@ ("f#2" :> 9249861) @@
    ("g2" :> 9799886) @@ ("g#2" :> 10382620) @@ ("a2" :> 11000000) @@ ("a#2" :> 11654090) @@
    ("b2" :> 12347080) @@ ("c2" :> 13081280) @@ ("c#2" :> 13859130) @@ ("d2" :> 14683240) @@
    ("d#2" :> 15556350) @@ ("e3" :> 16481380) @@ ("f3" :> 17461410) @@ ("f#3" :> 18499720) @@
    ("g3" :> 19599770) @@ ("g#3" :> 20765230) @@ ("a3" :> 22000000) @@ ("a#3" :> 23308190) @@
    ("b3" :> 24694170) @@ ("c3" :> 26162560) @@ ("c#3" :> 27718260) @@ ("d3" :> 29366480) @@
    ("d#3" :> 31112700) @@ ("e4" :> 32962760) @@ ("f4" :> 34922820) @@ ("f#4" :> 36999440) @@
    ("g4" :> 39199540) @@ ("g#4" :> 41530470) @@ ("a4" :> 44000000) @@ ("a#4" :> 46616380) @@
    ("b4" :> 49388330) @@ ("c4" :> 52325110) @@ ("c#4" :> 55436530) @@ ("d4" :> 58732950) @@
    ("d#4" :> 62225400) @@ ("e5" :> 65925510) @@ ("f5" :> 69845650) @@ ("f#5" :> 73998880) @@
    ("g5" :> 78399090) @@ ("g#5" :> 83060940) @@ ("a5" :> 88000000) @@ ("a#5" :> 93232750) @@
    ("b5" :> 98776660) @@ ("c5" :> 104650200) @@ ("c#5" :> 110873100) @@ ("d5" :> 117465900) @@
    ("d#5" :> 124450800) @@ ("e6" :> 131851000) @@ ("f6" :> 139691300) @@ ("f#6" :> 147997800) @@
    ("g6" :> 156798200) @@ ("g#6" :> 166121900) @@ ("a6" :> 176000000) @@ ("a#6" :> 186465500) @@
    ("b6" :> 197553300) @@ ("c6" :> 209300500) @@ ("c#6" :> 221746100) @@ ("d6" :> 234931800) @@
    ("d#6" :> 248901600) @@ ("e7" :> 263702000) @@ ("f7" :> 279382600) @@ ("f#7" :> 295995500) @@
    ("g7" :> 313596300) @@ ("g#7" :> 332243800) @@ ("a7" :> 352000000) @@ ("a#7" :> 372931000) @@
    ("b7" :> 395106600) @@ ("c7" :> 418600900) @@ ("c#7" :> 443492200) @@ ("d7" :> 469863600) @@
    ("d#7" :> 497803200)

(* ----------------------------- arithmetic ----------------------------- *)
Abs(x) == IF x < 0 THEN -x ELSE x
Sgn(x) == IF x > 0 THEN 1 ELSE IF x < 0 THEN -1 ELSE 0
Min(a, b) == IF a <= b THEN a ELSE b
Max(a, b) == IF a >= b THEN a ELSE b

RECURSIVE GCD(_, _)
GCD(a, b) == IF b = 0 THEN a ELSE GCD(b, a % b)

\* the rational n / d in lowest terms, d # 0
Rat(n, d) ==
    LET g == GCD(Abs(n), Abs(d))
        s == IF d < 0 THEN -1 ELSE 1
    IN  <<s * (n \div g), s * (d \div g)>>

Whole(n) == <<n, 1>>
IsFinite(x) == x[2] # 0

RAdd(x, y) ==
    LET g == GCD(x[2], y[2])
    IN  Rat(x[1] * (y[2] \div g) + y[1] * (x[2] \div g), (x[2] \div g) * y[2])
RNeg(x) == <<-x[1], x[2]>>
RSub(x, y) == RAdd(x, RNeg(y))
RMul(x, y) ==
    LET g1 == GCD(Abs(x[1]), y[2])
        g2 == GCD(Abs(y[1]), x[2])
        h1 == IF g1 = 0 THEN 1 ELSE g1
        h2 == IF g2 = 0 THEN 1 ELSE g2
    IN  Rat((x[1] \div h1) * (y[1] \div h2), (x[2] \div h2) * (y[2] \div h1))
RAbs(x) == <<Abs(x[1]), x[2]>>
RSign(x) == Whole(Sgn(x[1]))
RLe(x, y) == x[1] * y[2] <= y[1] * x[2]
RLt(x, y) == x[1] * y[2] < y[1] * x[2]
RFloor(x) == x[1] \div x[2]
\* Python int(float) and astype(int): towards zero
RTrunc(x) == IF x[1] >= 0 THEN x[1] \div x[2] ELSE -((-x[1]) \div x[2])
\* float division as numpy does it: x / 0 is inf, -inf or nan, never an error
RDiv(x, y) ==
    IF y[1] = 0 THEN <<Sgn(x[1]), 0>>
    ELSE RMul(x, IF y[1] < 0 THEN <<-y[2], -y[1]>> ELSE <<y[2], y[1]>>)

\* a 16-bit signed integer wraps around
ToInt16(v) == ((v + 32768) % 65536) - 32768

(* ------------------------------- arrays ------------------------------- *)
Idx(n) == IF n <= MaxDense THEN 0 .. (n - 1) ELSE {0, n - 1}

\* an array holding the integers of a sequence
FromSeq(dtype, s) == [dtype |-> dtype, len |-> Len(s), at |-> [i \in Idx(Len(s)) |-> Whole(s[i + 1])]]

Ok(v) == [kind |-> "ok", value |-> v]
Raise(e) == [kind |-> e]

np_zeros(n) == [dtype |-> "float64", len |-> n, at |-> [i \in Idx(n) |-> Whole(0)]]

\* num evenly spaced samples over [start, stop], both end points included
np_linspace(start, stop, num) ==
    [dtype |-> "float64", len |-> num,
     at |-> [i \in Idx(num) |->
               IF num = 1 THEN start
               ELSE RAdd(start, RMul(RSub(stop, start), Rat(i, num - 1)))]]

\* sin of an angle given in turns.  The angle is taken to whole degrees
\* (downwards) and the sine is Bhaskara's rational approximation, exact at
\* 0, 30, 90, 150 and 180 degrees and within 0.2% of sin elsewhere.
np_sin(turns) ==
    LET deg  == (360 * (turns[1] % turns[2])) \div turns[2]
        half == IF deg < 180 THEN deg ELSE deg - 180
        p    == half * (180 - half)
        s    == Rat(4 * p, 40500 - p)
    IN  IF deg < 180 THEN s ELSE RNeg(s)

\* the dtype of a binary operation's result
ResultType(s, t) ==
    IF s = "float64" \/ t = "float64" THEN "float64"
    ELSE IF s = "int64" \/ t = "int64" THEN "int64"
    ELSE "int16"

Cast(dtype, v) == IF dtype = "int16" THEN Whole(ToInt16(RTrunc(v))) ELSE v

\* a + b or a * b elementwise, an array of one sample broadcast to the
\* other's length; arrays of other differing lengths do not broadcast
Broadcast(a, b, op) ==
    IF a.len # b.len /\ a.len # 1 /\ b.len # 1 THEN Raise("ValueError")
    ELSE LET n == IF a.len = 1 THEN b.len ELSE a.len
             t == ResultType(a.dtype, b.dtype)
         IN  Ok([dtype |-> t, len |-> n,
                 at |-> [i \in Idx(n) |->
                          LET x == a.at[IF a.len = 1 THEN 0 ELSE i]
                              y == b.at[IF b.len = 1 THEN 0 ELSE i]
                          IN  Cast(t, IF op = "add" THEN RAdd(x, y) ELSE RMul(x, y))]])

np_add(a, b) == Broadcast(a, b, "add")
np_multiply(a, b) == Broadcast(a, b, "multiply")

\* Python's clamping of a slice bound k on a sequence of n elements
PyIndex(n, k) == IF k < 0 THEN Max(n + k, 0) ELSE Min(k, n)

\* arr[start:stop] = rhs
SetSlice(arr, start, stop, rhs) ==
    LET lo == PyIndex(arr.len, start)
        hi == PyIndex(arr.len, stop)
        L  == Max(hi - lo, 0)
    IN  IF rhs.len # L /\ rhs.len # 1 THEN Raise("ValueError")
        ELSE Ok([arr EXCEPT !.at =
                   [i \in Idx(arr.len) |->
                      IF lo <= i /\ i < hi
                      THEN rhs.at[IF rhs.len = 1 THEN 0 ELSE i - lo]
                      ELSE arr.at[i]]])

\* arr[:m]
Prefix(arr, m) ==
    LET n == PyIndex(arr.len, m)
    IN  [dtype |-> arr.dtype, len |-> n, at |-> [i \in Idx(n) |-> arr.at[i]]]

RECURSIVE MaxOf(_, _)
MaxOf(arr, S) ==
    IF Cardinality(S) = 1 THEN arr.at[CHOOSE i \in S : TRUE]
    ELSE LET i == CHOOSE j \in S : TRUE
             m == MaxOf(arr, S \ {i})
         IN  IF RLe(m, arr.at[i]) THEN arr.at[i] ELSE m

\* np.max(np.abs(arr)); a reduction over no samples raises
np_max_abs(arr) ==
    IF arr.len = 0 THEN Raise("ValueError")
    ELSE Ok(MaxOf([arr EXCEPT !.at = [i \in Idx(arr.len) |-> RAbs(arr.at[i])]], Idx(arr.len)))

(* --------------------------- SoundWaveFactory -------------------------- *)
\* MAX_AMPLITUDE * np.sin(2 * np.pi * frequency * timeline)
get_normed_sin(timeline, frequency) ==
    [dtype |-> "float64", len |-> timeline.len,
     at |-> [i \in Idx(timeline.len) |->
               RMul(Whole(MAX_AMPLITUDE), np_sin(RMul(frequency, timeline.at[i])))]]

get_soundwave(timeline, note) ==
    IF note \notin DOMAIN NOTES THEN Raise("KeyError")
    ELSE Ok(get_normed_sin(timeline, Rat(NOTES[note], 100000)))

AsType(arr, dtype) ==
    [dtype |-> dtype, len |-> arr.len, at |-> [i \in Idx(arr.len) |-> Cast(dtype, arr.at[i])]]

\* create_note, had the timeline been sized from the duration argument
create_note_sized_by_duration(note, duration) ==
    LET timeline == np_linspace(Whole(0), duration,
                                RTrunc(RMul(Whole(SAMPLING_RATE), duration)))
        sound    == get_soundwave(timeline, note)
    IN  IF sound.kind # "ok" THEN sound ELSE Ok(AsType(sound.value, "int16"))

create_note(note, duration) ==
    LET timeline == np_linspace(Whole(0), duration, SOUND_ARRAY_LEN)
        sound    == get_soundwave(timeline, note)
    IN  IF sound.kind # "ok" THEN sound ELSE Ok(AsType(sound.value, "int16"))

MinLen(waves) ==
    CHOOSE m \in {waves[k].len : k \in DOMAIN waves} :
        \A k \in DOMAIN waves : m <= waves[k].len

\* wave[:min_length] / np.max(np.abs(wave))
NormalizeOne(wave, min_length) ==
    LET peak == np_max_abs(wave)
        cut  == Prefix(wave, min_length)
    IN  IF peak.kind # "ok" THEN peak
        ELSE Ok([dtype |-> "float64", len |-> cut.len,
                 at |-> [i \in Idx(cut.len) |-> RDiv(cut.at[i], peak.value)]])

normalize_sound_waves(waves) ==
    IF Len(waves) = 0 THEN Raise("ValueError")
    ELSE LET each == [k \in DOMAIN waves |-> NormalizeOne(waves[k], MinLen(waves))]
         IN  IF \E k \in DOMAIN waves : each[k].kind # "ok" THEN Raise("ValueError")
             ELSE [kind |-> "ok", waves |-> [k \in DOMAIN waves |-> each[k].value]]

\* (2 * np.abs(2 * (x - np.floor(x + 0.5))) - 1) * MAX_AMPLITUDE
Triangle(x) ==
    LET r == RSub(x, Whole(RFloor(RAdd(x, Rat(1, 2)))))
    IN  RMul(RSub(RMul(Whole(2), RAbs(RMul(Whole(2), r))), Whole(1)), Whole(MAX_AMPLITUDE))

\* convert_wave_type, had an unsupported shape fallen through to the square wave
convert_wave_type_lenient(wave, wave_type) ==
    LET x == np_linspace(Whole(0), Whole(1), wave.len)
    IN  IF wave_type = "triangular"
        THEN Ok([dtype |-> "float64", len |-> wave.len,
                 at |-> [i \in Idx(wave.len) |-> Triangle(x.at[i])]])
        ELSE Ok([dtype |-> wave.dtype, len |-> wave.len,
                 at |-> [i \in Idx(wave.len) |->
                           RMul(RSign(wave.at[i]), Whole(MAX_AMPLITUDE))]])

convert_wave_type(wave, wave_type) ==
    LET x == np_linspace(Whole(0), Whole(1), wave.len)
    IN  IF wave_type = "triangular"
        THEN Ok([dtype |-> "float64", len |-> wave.len,
                 at |-> [i \in Idx(wave.len) |-> Triangle(x.at[i])]])
        ELSE IF wave_type = "square"
        THEN Ok([dtype |-> wave.dtype, len |-> wave.len,
                 at |-> [i \in Idx(wave.len) |->
                           RMul(RSign(wave.at[i]), Whole(MAX_AMPLITUDE))]])
        ELSE Raise("ValueError")

\* the envelope array of apply_adsr; when a slice assignment raises, `value`
\* is the envelope as it stood
adsr_envelope(total_length, attack, decay, sustain, release) ==
    LET attack_length  == RTrunc(RMul(Whole(total_length), attack))
        decay_length   == RTrunc(RMul(Whole(total_length), decay))
        release_length == RTrunc(RMul(Whole(total_length), release))
        e0 == np_zeros(total_length)
        e1 == SetSlice(e0, 0, attack_length,
                       np_linspace(Whole(0), Whole(1), attack_length))
        e2 == SetSlice(e1.value, attack_length, attack_length + decay_length,
                       np_linspace(Whole(1), sustain, decay_length))
        e3 == SetSlice(e2.value, -release_length, total_length,
                       np_linspace(sustain, Whole(0), release_length))
    IN  IF e1.kind # "ok" THEN [kind |-> e1.kind, value |-> e0]
        ELSE IF e2.kind # "ok" THEN [kind |-> e2.kind, value |-> e1.value]
        ELSE IF e3.kind # "ok" THEN [kind |-> e3.kind, value |-> e2.value]
        ELSE e3

apply_adsr(wave, attack, decay, sustain, release) ==
    LET e == adsr_envelope(wave.len, attack, decay, sustain, release)
    IN  IF e.kind # "ok" THEN [kind |-> e.kind, envelope |-> e.value]
        ELSE LET out == np_multiply(wave, e.value)
             IN  IF out.kind # "ok" THEN [kind |-> out.kind, envelope |-> e.value]
                 ELSE [kind |-> "ok", value |-> out.value, envelope |-> e.value]

RECURSIVE SumAt(_, _, _)
SumAt(waves, k, i) ==
    IF k = 0 THEN Whole(0) ELSE RAdd(SumAt(waves, k - 1, i), waves[k].at[i])

\* combine_waves, had it cut the waves to their common length before summing
combine_waves_truncating(waves) ==
    IF Len(waves) = 0 THEN [kind |-> "scalar", scalar |-> Whole(0)]
    ELSE LET cut == [k \in DOMAIN waves |-> Prefix(waves[k], MinLen(waves))]
         IN  Ok([dtype |-> IF \E k \in DOMAIN waves : waves[k].dtype = "float64"
                           THEN "float64" ELSE "int64",
                 len |-> MinLen(waves),
                 at |-> [i \in Idx(MinLen(waves)) |-> SumAt(cut, Len(cut), i)]])

\* np.sum(waves, axis=0): the list becomes one 2-D array, which a ragged list
\* cannot (numpy >= 1.24 raises ValueError); a sum of 16-bit integers is
\* accumulated in the platform integer
combine_waves(waves) ==
    IF Len(waves) = 0 THEN [kind |-> "scalar", scalar |-> Whole(0)]
    ELSE IF \E k \in DOMAIN waves : waves[k].len # waves[1].len THEN Raise("ValueError")
    ELSE Ok([dtype |-> IF \E k \in DOMAIN waves : waves[k].dtype = "float64"
                       THEN "float64" ELSE "int64",
             len |-> waves[1].len,
             at |-> [i \in Idx(waves[1].len) |-> SumAt(waves, Len(waves), i)]])

(* ---------------------------- melody strings --------------------------- *)
\* a string is a sequence of one-character strings
IsNoteLetter(c) == c \in {"a", "b", "c", "d", "e", "f", "g"}
IsDigit(c) == c \in {"0", "1", "2", "3", "4", "5", "6", "7", "8", "9"}
IsSpace(c) == c \in {" ", "\t", "\n", "\r"}
DigitValue(c) ==
    CASE c = "0" -> 0 [] c = "1" -> 1 [] c = "2" -> 2 [] c = "3" -> 3 [] c = "4" -> 4
      [] c = "5" -> 5 [] c = "6" -> 6 [] c = "7" -> 7 [] c = "8" -> 8 [] c = "9" -> 9

RECURSIVE Join(_)
Join(s) == IF s = <<>> THEN "" ELSE Head(s) \o Join(Tail(s))

\* the first position at or after p that holds no digit (\d* is greedy)
RECURSIVE SkipDigits(_, _)
SkipDigits(text, p) ==
    IF p <= Len(text) /\ IsDigit(text[p]) THEN SkipDigits(text, p + 1) ELSE p

\* [a-g][#]?\d at position p: the position after the match, 0 when none
MatchNote(text, p) ==
    IF p > Len(text) \/ ~IsNoteLetter(text[p]) THEN 0
    ELSE LET q == IF p + 1 <= Len(text) /\ text[p + 1] = "#" THEN p + 2 ELSE p + 1
         IN  IF q <= Len(text) /\ IsDigit(text[q]) THEN q + 1 ELSE 0

\* \s\d*\.?\d*s at position p: the position after the match, 0 when none
MatchDuration(text, p) ==
    IF p > Len(text) \/ ~IsSpace(text[p]) THEN 0
    ELSE LET a == SkipDigits(text, p + 1)
             b == IF a <= Len(text) /\ text[a] = "." THEN a + 1 ELSE a
             c == SkipDigits(text, b)
         IN  IF c <= Len(text) /\ text[c] = "s" THEN c + 1 ELSE 0

\* re.findall(r'([a-g][#]?\d)(\s\d*\.?\d*s)?', text) scanning from p: the
\* <<note, duration>> group pairs, an absent duration group being empty
RECURSIVE FindAll(_, _)
FindAll(text, p) ==
    IF p > Len(text) THEN <<>>
    ELSE LET n == MatchNote(text, p)
             d == MatchDuration(text, n)
             e == IF d = 0 THEN n ELSE d
         IN  IF n = 0 THEN FindAll(text, p + 1)
             ELSE <<  <<SubSeq(text, p, n - 1), SubSeq(text, n, e - 1)>>  >>
                  \o FindAll(text, e)

RECURSIVE Strip(_)
Strip(s) ==
    IF s # <<>> /\ IsSpace(Head(s)) THEN Strip(Tail(s))
    ELSE IF s # <<>> /\ IsSpace(s[Len(s)]) THEN Strip(SubSeq(s, 1, Len(s) - 1))
    ELSE s

RECURSIVE DigitsValue(_)
DigitsValue(s) ==
    IF s = <<>> THEN 0 ELSE 10 * DigitsValue(SubSeq(s, 1, Len(s) - 1)) + DigitValue(s[Len(s)])

\* float(s) for a string of blanks, digits and dots: digits with at most one
\* dot among them, at least one digit, blanks around them ignored
PyFloat(s) ==
    LET t    == Strip(s)
        a    == SkipDigits(t, 1)
        b    == IF a <= Len(t) /\ t[a] = "." THEN a + 1 ELSE a
        c    == SkipDigits(t, b)
        frac == SubSeq(t, b, c - 1)
    IN  IF c <= Len(t) \/ (a = 1 /\ c = b) THEN Raise("ValueError")
        ELSE Ok(Rat(DigitsValue(SubSeq(t, 1, a - 1) \o frac), 10 ^ Len(frac)))

\* the loop of generate_melody from match k on; `pairs` are the (note,
\* duration) pairs the loop has unpacked and converted
RECURSIVE MelodyLoop(_, _, _, _)
MelodyLoop(found, k, combined_wave, pairs) ==
    IF k > Len(found)
    THEN IF combined_wave = <<>> THEN [kind |-> "None", pairs |-> pairs]
         ELSE [kind |-> "ok", value |-> combined_wave[1], pairs |-> pairs]
    ELSE LET note == Join(found[k][1])
             text == found[k][2]
             duration == IF text # <<>> THEN PyFloat(SubSeq(text, 1, Len(text) - 1))
                         ELSE Ok(Whole(DURATION_SECONDS))
         IN  IF duration.kind # "ok" THEN [kind |-> duration.kind, pairs |-> pairs]
             ELSE LET wave == create_note(note, duration.value)
                      now  == Append(pairs, <<note, duration.value>>)
                      sum  == IF combined_wave = <<>> THEN wave
                              ELSE np_add(combined_wave[1], wave.value)
                  IN  IF wave.kind # "ok" THEN [kind |-> wave.kind, pairs |-> now]
                      ELSE IF sum.kind # "ok" THEN [kind |-> sum.kind, pairs |-> now]
                      ELSE MelodyLoop(found, k + 1, <<sum.value>>, now)

generate_melody(melody_str) == MelodyLoop(FindAll(melody_str, 1), 1, <<>>, <<>>)

(* -------------------------------- inputs ------------------------------- *)
SeqsUpTo(S, n) == UNION {[1 .. k -> S] : k \in 0 .. n}

NoteInputs == {"a4", "c4", "c#4", "0", "c8", "e#4"}
DurationInputs == {Whole(0), Rat(1, 2), Whole(2), Rat(5, 2), Whole(DURATION_SECONDS)}

SampleValues == {-2, 0, 1}
ExampleWaves ==
    {FromSeq("int64", <<1, 2, 3>>), FromSeq("int64", <<2, 4, 2>>),
     FromSeq("int64", <<10, -10, 5>>)}
DenseWaves == {FromSeq("int64", s) : s \in SeqsUpTo(SampleValues, MaxLen)} \cup ExampleWaves
NoteWaves ==
    {create_note(n, Whole(DURATION_SECONDS)).value : n \in {"a4", "c4", "c#4", "0"}}
ConstWaves == {FromSeq("int16", [i \in 1 .. n |-> MAX_AMPLITUDE]) : n \in 0 .. MaxAdsrLen}
Waves == DenseWaves \cup NoteWaves \cup ConstWaves

WaveTypes == {"triangular", "square", "bogus", "sine"}
Fractions == {Rat(k, FracDen) : k \in 0 .. FracDen}

Alphabet == {"c", "#", "4", "8", " ", "s", "2", "."}
ExampleTexts ==
    {<<"a", "4", " ", "2", "s", " ", "c", "#", "4">>, <<"x", "y", "z">>,
     <<"c", "4", " ", "2", ".", "5", "s", "e", "#", "4">>,
     <<"c", "4", "c", "4", "c", "4", "c", "4", "c", "4">>}
Texts == SeqsUpTo(Alphabet, MaxText) \cup ExampleTexts

(* ------------------------------- the calls ----------------------------- *)
\* Calls are synchronous and one at a time: `call` is the call in progress
\* with its arguments, `ret` what it returned or raised; between calls both
\* are empty.
NoCall == [op |-> "none"]
NoRet == [kind |-> "none"]

\* SoundWaveFactory(): self.notes = []
Init ==
    /\ notes = <<>>
    /\ call = NoCall
    /\ ret = NoRet

CreateNote(note, duration) ==
    /\ call' = [op |-> "create_note", note |-> note, duration |-> duration]
    /\ ret' = create_note(note, duration)
    /\ UNCHANGED notes

NormalizeSoundWaves(waves) ==
    /\ call' = [op |-> "normalize_sound_waves", waves |-> waves]
    /\ ret' = normalize_sound_waves(waves)
    /\ UNCHANGED notes

ConvertWaveType(wave, wave_type) ==
    /\ call' = [op |-> "convert_wave_type", wave |-> wave, wave_type |-> wave_type]
    /\ ret' = convert_wave_type(wave, wave_type)
    /\ UNCHANGED notes

ApplyAdsr(wave, attack, decay, sustain, release) ==
    /\ call' = [op |-> "apply_adsr", wave |-> wave, attack |-> attack, decay |-> decay,
                sustain |-> sustain, release |-> release]
    /\ ret' = apply_adsr(wave, attack, decay, sustain, release)
    /\ UNCHANGED notes

CombineWaves(waves) ==
    /\ call' = [op |-> "combine_waves", waves |-> waves]
    /\ ret' = combine_waves(waves)
    /\ UNCHANGED notes

GenerateMelody(melody_str) ==
    /\ call' = [op |-> "generate_melody", melody_str |-> melody_str,
                found |-> FindAll(melody_str, 1)]
    /\ ret' = generate_melody(melody_str)
    /\ UNCHANGED notes

\* the caller has taken the result (or the exception) of the call
Return ==
    /\ call # NoCall
    /\ call' = NoCall
    /\ ret' = NoRet
    /\ UNCHANGED notes

\* a call starts only when none is in progress
Idle == call = NoCall

Next ==
    \/ Idle /\ \E note \in NoteInputs, duration \in DurationInputs :
                 CreateNote(note, duration)
    \/ Idle /\ \E waves \in SeqsUpTo(DenseWaves, MaxWaves) : NormalizeSoundWaves(waves)
    \/ Idle /\ \E wave \in Waves, wave_type \in WaveTypes : ConvertWaveType(wave, wave_type)
    \/ Idle /\ \E wave \in Waves, attack \in Fractions, decay \in Fractions,
                  sustain \in Fractions, release \in Fractions :
                    ApplyAdsr(wave, attack, decay, sustain, release)
    \/ Idle /\ \E waves \in SeqsUpTo(Waves, MaxWaves) : CombineWaves(waves)
    \/ Idle /\ \E melody_str \in Texts : GenerateMelody(melody_str)
    \/ Return

Spec == Init /\ [][Next]_vars

(* -------------------------------- claims ------------------------------- *)
InRange(w) ==
    \A i \in DOMAIN w.at :
        RLe(Whole(-MAX_AMPLITUDE), w.at[i]) /\ RLe(w.at[i], Whole(MAX_AMPLITUDE))

AllZero(w) == \A i \in DOMAIN w.at : w.at[i] = Whole(0)

\* the largest absolute sample of w is exactly 1
PeakIsOne(w) ==
    /\ \E i \in DOMAIN w.at : RAbs(w.at[i]) = Whole(1)
    /\ \A i \in DOMAIN w.at : IsFinite(w.at[i]) /\ RLe(RAbs(w.at[i]), Whole(1))

SameLengths(waves) == \A j, k \in DOMAIN waves : waves[j].len = waves[k].len

RECURSIVE TotalAt(_, _)
TotalAt(waves, i) ==
    IF waves = <<>> THEN Whole(0) ELSE RAdd(Head(waves).at[i], TotalAt(Tail(waves), i))

\* a letter a-g, an optional '#', an octave digit 0-7
WellFormedNote(s) ==
    /\ Len(s) \in {2, 3}
    /\ IsNoteLetter(s[1])
    /\ Len(s) = 3 => s[2] = "#"
    /\ s[Len(s)] \in {"0", "1", "2", "3", "4", "5", "6", "7"}

\* the duration a match stands for: the number before the 's', or the default
WrittenDuration(d) ==
    IF d = <<>> THEN Ok(Whole(5)) ELSE PyFloat(SubSeq(d, 2, Len(d) - 1))

AdsrSum == RAdd(RAdd(call.attack, call.decay), call.release)
AttackLength == RFloor(RMul(Whole(call.wave.len), call.attack))
DecayLength == RFloor(RMul(Whole(call.wave.len), call.decay))
ReleaseLength == RFloor(RMul(Whole(call.wave.len), call.release))

\* C1: for every input string, melody parsing yields the (note, duration)
\* pairs in order of occurrence, the duration being the number written before
\* the 's' or the default 5; "a4 2s c#4" yields [("a4", 2.0), ("c#4", 5.0)].
C1_ParseYieldsPairs ==
    call.op = "generate_melody" =>
        /\ ret.kind # "ValueError"
        /\ Len(ret.pairs) <= Len(call.found)
        /\ ret.kind \in {"ok", "None"} => Len(ret.pairs) = Len(call.found)
        /\ \A k \in DOMAIN ret.pairs :
              /\ ret.pairs[k][1] = Join(call.found[k][1])
              /\ WrittenDuration(call.found[k][2]) = Ok(ret.pairs[k][2])
        /\ call.melody_str = <<"a", "4", " ", "2", "s", " ", "c", "#", "4">> =>
              ret.pairs = << <<"a4", Whole(2)>>, <<"c#4", Whole(5)>> >>

\* C2: rendering a melody in which no note matched fails with an
\* EmptyMelodyError; generate_melody never returns a value for such an input.
C2_EmptyMelodyRaises ==
    (call.op = "generate_melody" /\ call.found = <<>>) => ret.kind = "EmptyMelodyError"

\* C3: for every non-empty list of waves none of which is all-zero, of equal
\* or different lengths, normalize_sound_waves returns one wave per input,
\* each of the minimum input length and of peak absolute amplitude exactly 1.
C3_NormalizedPeakOne ==
    (/\ call.op = "normalize_sound_waves"
     /\ call.waves # <<>>
     /\ \A k \in DOMAIN call.waves : ~AllZero(call.waves[k])) =>
        /\ ret.kind = "ok"
        /\ Len(ret.waves) = Len(call.waves)
        /\ \A k \in DOMAIN ret.waves :
              /\ \A j \in DOMAIN call.waves : ret.waves[k].len <= call.waves[j].len
              /\ \E j \in DOMAIN call.waves : ret.waves[k].len = call.waves[j].len
              /\ PeakIsOne(ret.waves[k])

\* C4: create_note returns a waveform of SAMPLING_RATE * DURATION_SECONDS =
\* 220500 samples for every valid note and every duration, and a waveform
\* returned by generate_melody has that length whatever durations the text gives.
C4_FixedLength ==
    /\ (call.op = "create_note" /\ call.note \in DOMAIN NOTES) =>
          /\ ret.kind = "ok"
          /\ ret.value.len = 220500
          /\ ret.value.len = SAMPLING_RATE * DURATION_SECONDS
    /\ (call.op = "generate_melody" /\ ret.kind = "ok") =>
          /\ call.found # <<>>
          /\ ret.value.len = 220500

\* a melody of two notes, one with a written duration other than the default
C4_Witness ==
    /\ call.op = "generate_melody"
    /\ ret.kind = "ok"
    /\ Len(ret.pairs) = 2
    /\ \E k \in DOMAIN ret.pairs : ret.pairs[k][2] = Whole(2)
    /\ ret.value.len = 220500

\* C5: every waveform produced by create_note, convert_wave_type, apply_adsr
\* (fractions and sustain in [0,1]), combine_waves and generate_melody, the
\* input waves being waves create_note returned, has every sample in
\* [-MAX_AMPLITUDE, MAX_AMPLITUDE].
C5_AmplitudeBound ==
    (/\ call.op \in {"create_note", "convert_wave_type", "apply_adsr", "combine_waves",
                     "generate_melody"}
     /\ call.op \in {"convert_wave_type", "apply_adsr"} => call.wave \in NoteWaves
     /\ call.op = "combine_waves" => \A k \in DOMAIN call.waves : call.waves[k] \in NoteWaves
     /\ ret.kind = "ok") =>
        InRange(ret.value)

\* C6: combine_waves returns the elementwise sum of its input waves when they
\* all have the same length ([1,2,3] and [1,2,3] give [2,4,6]) and fails with
\* an error, returning no wave, when two input waves differ in length.
C6_CombineSumsOrFails ==
    call.op = "combine_waves" =>
        /\ ~SameLengths(call.waves) => ret.kind = "ValueError"
        /\ (SameLengths(call.waves) /\ call.waves # <<>>) =>
              /\ ret.kind = "ok"
              /\ ret.value.len = call.waves[1].len
              /\ \A i \in DOMAIN ret.value.at : ret.value.at[i] = TotalAt(call.waves, i)
        /\ call.waves = <<>> => (ret.kind = "scalar" /\ ret.scalar = Whole(0))
        /\ call.waves = <<FromSeq("int64", <<1, 2, 3>>), FromSeq("int64", <<1, 2, 3>>)>> =>
              ret.value = FromSeq("int64", <<2, 4, 6>>)

\* two waves of different lengths were given and the call raised
C6_Witness ==
    /\ call.op = "combine_waves"
    /\ Len(call.waves) = 2
    /\ call.waves[1].len = 3
    /\ call.waves[2].len = 1
    /\ ret.kind = "ValueError"

\* C7: convert_wave_type fails with the unsupported-wave-type error for every
\* shape other than 'triangular' and 'square', for every input wave, and
\* returns a wave of its input's length for those two shapes.
C7_WaveTypes ==
    call.op = "convert_wave_type" =>
        IF call.wave_type \in {"triangular", "square"}
        THEN ret.kind = "ok" /\ ret.value.len = call.wave.len
        ELSE ret.kind = "ValueError"

\* an unsupported shape was asked for a wave that has samples
C7_Witness ==
    /\ call.op = "convert_wave_type"
    /\ call.wave_type = "bogus"
    /\ call.wave.len > 0
    /\ ret.kind = "ValueError"

\* C8: for every input wave and all fractions and sustain level in [0,1] with
\* attack + decay + release <= 1, apply_adsr returns a wave whose first and
\* last samples are 0.
C8_EnvelopeStartsAndEndsAtZero ==
    (call.op = "apply_adsr" /\ RLe(AdsrSum, Whole(1))) =>
        /\ ret.kind = "ok"
        /\ call.wave.len > 0 =>
              /\ ret.value.at[0] = Whole(0)
              /\ ret.value.at[call.wave.len - 1] = Whole(0)

\* C9: every note name that melody parsing extracts is a letter a-g, an
\* optional '#' and an octave digit 0-7; other text (a letter followed by 8
\* or 9, say) is skipped and causes no error in generate_melody.
C9_OnlyTableNotes ==
    call.op = "generate_melody" =>
        /\ \A k \in DOMAIN call.found : WellFormedNote(call.found[k][1])
        /\ ret.kind = "KeyError" => WellFormedNote(call.found[Len(ret.pairs)][1])

\* C10: in apply_adsr, whenever attack + decay + release < 1, the envelope is
\* 0 from the end of the decay segment up to the start of the release
\* segment, so the output wave is 0 there, and the release ramp occupies the
\* last int(n * release) samples.
C10_SilentGap ==
    (call.op = "apply_adsr" /\ RLt(AdsrSum, Whole(1))) =>
        /\ ret.kind = "ok"
        /\ \A i \in DOMAIN ret.envelope.at :
              (AttackLength + DecayLength <= i /\ i < call.wave.len - ReleaseLength) =>
                  ret.envelope.at[i] = Whole(0) /\ ret.value.at[i] = Whole(0)
        /\ \A i \in DOMAIN ret.envelope.at :
              i >= call.wave.len - ReleaseLength =>
                  ret.envelope.at[i] =
                      np_linspace(call.sustain, Whole(0), ReleaseLength).at[
                          i - (call.wave.len - ReleaseLength)]

====
